---- MODULE Spec2Model ----
(***************************************************************************)
(* TransactionSyncStreamWorker of wallet-lib: the worker's lifecycle       *)
(* (onStart, execute, onStop), the checkpoint it keeps in storage, the     *)
(* address watch set and the transaction streams it opens on the           *)
(* transport.                                                              *)
(*                                                                         *)
(* onStart, execute, onStop and the constructor are translated from        *)
(* TransactionSyncStreamWorker.js.  The methods that file only requires    *)
(* (startHistoricalSync, startIncomingSync, syncUpToTheGapLimit, the       *)
(* checkpoint getters and setters, getAddressesToSync) and the transport   *)
(* are modelled from the specification's sections 3 to 7.                  *)
(*                                                                         *)
(* An incoming-sync task consumes at most one stream at a time, so a       *)
(* stream is named by the task that opened it: this.stream = t stands for  *)
(* "this.stream references the stream task t opened last".  The stream of  *)
(* the historical sync is kept apart (hist).                               *)
(*                                                                         *)
(* The static helpers (filterWalletTransactions, the three decoders) and   *)
(* the checkpoint getter are exercised on their own inputs, each under a   *)
(* specification of its own: FilterSpec, DecodeSpec and StoreSpec.         *)
(***************************************************************************)
EXTENDS Integers, FiniteSets, Sequences, TLC

\* ------------------------------------------------------------- bounds
MaxHeight == 2      \* the chain grows to this height
MaxTasks == 1       \* incoming-sync tasks execute creates in one behaviour
MaxGap == 2         \* gapLimit is drawn from 1..MaxGap

MaxSkip == MaxHeight - 1   \* skipSynchronizationBeforeHeight is drawn from 0..MaxSkip
InitTip == MaxHeight - 1   \* the chain's height when the worker is constructed
MaxWatch == 3 * MaxGap     \* the address watch set grows to at most this size

\* ---------------------------------------------------------- constants
NoStream == 0       \* this.stream = null
NoTask == 0         \* this.incomingSyncPromise = null
NoMatch == -1       \* no address of the watch set matched

TaskIds == 1..MaxTasks

VARIABLES
  syncIncomingTransactions,  \* this.syncIncomingTransactions
  stream,                    \* this.stream: the Stream Handle
  incomingSyncPromise,       \* this.incomingSyncPromise: the latest task
  skipHeight,                \* storage.store.syncOptions.skipSynchronizationBeforeHeight (0: not set)
  lastSyncedBlockHeight,     \* the account's blockHeight in storage
  lastSyncedBlockHash,       \* the account's blockHash in storage
  gapLimit,                  \* the worker's gapLimit option
  watchSize,                 \* size of the address watch set (addresses 0..watchSize-1)
  maxMatched,                \* highest derivation index that ever matched
  tip,                       \* best block height of the chain
  pc,                        \* where the worker's lifecycle stands
  streams,                   \* the stream of each incoming-sync task
  hist,                      \* the stream of the historical sync
  tasks,                     \* state of each incoming-sync task
  nTasks,                    \* how many tasks execute created
  lastRequest,               \* the subscribeTransactions request the last step made, if any
  lastCancel,                \* the cancel() call the last step made, if any
  transactions,              \* filterWalletTransactions: the transactions argument
  addressList,               \* filterWalletTransactions: the addressList argument
  network,                   \* filterWalletTransactions: the network argument
  filterCalls,               \* what the calls of filterWalletTransactions returned, in order
  response,                  \* the stream response handed to the decoding helpers
  decoded,                   \* what each decoding helper returned for it
  accounts,                  \* storage.store.wallets[walletId].accounts[index]
  walletId,                  \* this.walletId
  index,                     \* this.index
  readHash                   \* what the last getLastSyncedBlockHash() returned

worker == <<syncIncomingTransactions, stream, incomingSyncPromise, skipHeight,
            lastSyncedBlockHeight, lastSyncedBlockHash, gapLimit, watchSize,
            maxMatched, tip, pc, streams, hist, tasks, nTasks, lastRequest,
            lastCancel>>
matcher == <<transactions, addressList, network, filterCalls>>
codec == <<response, decoded>>
storage == <<accounts, walletId, index, readHash>>
helpers == <<matcher, codec, storage>>

vars == <<worker, helpers>>

config == <<skipHeight, gapLimit>>
checkpoint == <<lastSyncedBlockHeight, lastSyncedBlockHash>>
watch == <<watchSize, maxMatched>>

\* pc: "constructed" after the constructor; "awaitHeader" and "histSync"
\* inside onStart; "ready" once onStart resolved; "headerFailed" once it
\* rejected with the header lookup's error and "failed" once it rejected
\* otherwise; "running" after execute; "stoppedAfterCancel" and
\* "stoppedNoStream" after an onStop that found a Stream Handle, or none.
Stopped ==
  {"constructed", "failed", "headerFailed", "stoppedAfterCancel",
   "stoppedNoStream"}

\* The hash of the block at height h; height 0 is "no block synced yet".
HashOf(h) == IF h = 0 THEN 0 ELSE 100 + h

NoStreamRec == [state |-> "none", pos |-> 0, intent |-> "none"]

NoRequest ==
  [owner |-> NoTask, addrs |-> 0, fromHeight |-> 0, fromHash |-> 0,
   cause |-> "none", openedWhen |-> "none"]

NoCancel == [intent |-> "none", handle |-> NoStream, target |-> NoStream]

\* subscribeTransactions(filter), filter = {addresses, fromBlockHeight,
\* fromBlockHash}: the request the transport receives.
Subscribe(owner, addrs, fromHeight, fromHash, cause, ctx) ==
  [owner |-> owner, addrs |-> addrs, fromHeight |-> fromHeight,
   fromHash |-> fromHash, cause |-> cause, openedWhen |-> ctx]

\* The stream a request opens: active, positioned at the request's height.
Opened(req) == [state |-> "active", pos |-> req.fromHeight, intent |-> "none"]

\* ExtendWatchSet forgetting the gap: the set reaches the matched index only.
ExtendWatchSetToMatch(size, m, g) ==
  IF m # NoMatch /\ m + g > size THEN m + 1 ELSE size

\* Section 4.1: on a batch whose highest matched index is m, the watch set
\* is extended when m + gapLimit exceeds its size (index 3, gap limit 10:
\* the set then covers indexes 0..13).
ExtendWatchSet(size, m, g) ==
  IF m # NoMatch /\ m + g > size THEN m + g + 1 ELSE size

Max(a, b) == IF a >= b THEN a ELSE b

\* SkipCheckpoint without setLastSyncedBlockHash: the stored hash stays.
SkipCheckpointHeightOnly(h, hash) ==
  [height |-> h, hash |-> lastSyncedBlockHash]

\* onStart, lines 133-138: setLastSyncedBlockHeight(skipSynchronizationBeforeHeight)
\* and setLastSyncedBlockHash(hash).
SkipCheckpoint(h, hash) == [height |-> h, hash |-> hash]

\* The part of the state the stream callbacks and onStop work on.
Heap ==
  [stream |-> stream, streams |-> streams, tasks |-> tasks,
   lastCancel |-> NoCancel]

Commit(st) ==
  /\ stream' = st.stream
  /\ streams' = st.streams
  /\ tasks' = st.tasks
  /\ lastCancel' = st.lastCancel

\* NeedsReconnect taking every ended stream for a shutdown.
NeverReconnect(handle) == FALSE

\* Section 4.3: the Stream Handle's presence is the sole signal that an ended
\* stream is to be rebuilt.
NeedsReconnect(handle) == handle # NoStream

\* Section 4.3: the cancellation-completion handler of the incoming-sync task
\* owning stream s, run when the transport delivers "stream ended".
StreamEnded(st, s) ==
  IF NeedsReconnect(st.stream)
    THEN [st EXCEPT !.streams[s].state = "ended", !.streams[s].pos = 0,
                    !.tasks[s] = "reopening", !.stream = NoStream]
    ELSE [st EXCEPT !.streams[s] = NoStreamRec, !.tasks[s] = "done"]

\* Section 6: stream.cancel().  The terminal notification is delivered inside
\* the call (sync) or later (the stream stays "cancelling" until then).
TransportCancel(st, s, intent, sync) ==
  LET logged == [st EXCEPT !.lastCancel =
                   [intent |-> intent, handle |-> st.stream, target |-> s]]
  IN  IF st.streams[s].state # "active" THEN logged
      ELSE LET marked == [logged EXCEPT !.streams[s].state = "cancelling",
                                        !.streams[s].intent = intent]
           IN  IF sync THEN StreamEnded(marked, s) ELSE marked

\* The helpers' variables while the worker itself is followed: no call made.
NotCalled == [called |-> FALSE]

MatcherOff ==
  /\ transactions = << >>
  /\ addressList = << >>
  /\ network = "testnet"
  /\ filterCalls = << >>

CodecOff ==
  /\ response = NotCalled
  /\ decoded = NotCalled

StorageOff ==
  /\ accounts = NotCalled
  /\ walletId = "none"
  /\ index = 0
  /\ readHash = NotCalled

Init ==
  /\ syncIncomingTransactions = FALSE
  /\ stream = NoStream
  /\ incomingSyncPromise = NoTask
  /\ skipHeight \in 0..MaxSkip
  /\ lastSyncedBlockHeight \in 0..InitTip
  /\ lastSyncedBlockHash = HashOf(lastSyncedBlockHeight)
  /\ gapLimit \in 1..MaxGap
  /\ watchSize = gapLimit
  /\ maxMatched = NoMatch
  /\ tip = InitTip
  /\ pc = "constructed"
  /\ streams = [t \in TaskIds |-> NoStreamRec]
  /\ hist = NoStreamRec
  /\ tasks = [t \in TaskIds |-> "idle"]
  /\ nTasks = 0
  /\ lastRequest = NoRequest
  /\ lastCancel = NoCancel

\* The chain grows by one block.
NewBlock ==
  /\ tip < MaxHeight
  /\ tip' = tip + 1
  /\ lastRequest' = NoRequest
  /\ lastCancel' = NoCancel
  /\ UNCHANGED <<helpers, syncIncomingTransactions, stream, incomingSyncPromise,
                 config, checkpoint, watch, pc, streams, hist, tasks, nTasks>>

\* startHistoricalSync's request: a stream filtered by the watch set,
\* starting at the checkpoint (cpHeight, cpHash) read from storage.
HistOpen(addrs, cpHeight, cpHash, cause) ==
  /\ lastRequest' = Subscribe(NoTask, addrs, cpHeight, cpHash, cause, "onStart")
  /\ hist' = Opened(lastRequest')
  /\ pc' = "histSync"

\* onStart, lines 125-130 and 142: reads syncOptions; with a skip height it
\* awaits the header lookup, without one it starts the historical sync.
OnStartBegin ==
  /\ pc \in Stopped
  /\ IF skipHeight # 0
       THEN /\ pc' = "awaitHeader"
            /\ lastRequest' = NoRequest
            /\ UNCHANGED hist
       ELSE HistOpen(watchSize, lastSyncedBlockHeight, lastSyncedBlockHash,
                     "histFirst")
  /\ lastCancel' = NoCancel
  /\ UNCHANGED <<helpers, syncIncomingTransactions, stream, incomingSyncPromise,
                 config, checkpoint, watch, tip, streams, tasks, nTasks>>

\* onStart, lines 130-142: the header arrives, the checkpoint is set to
\* (skip height, header.hash), and the historical sync starts from it.
OnStartHeaderReturn ==
  /\ pc = "awaitHeader"
  /\ skipHeight <= tip
  /\ LET cp == SkipCheckpoint(skipHeight, HashOf(skipHeight)) IN
       /\ lastSyncedBlockHeight' = cp.height
       /\ lastSyncedBlockHash' = cp.hash
       /\ HistOpen(watchSize, cp.height, cp.hash, "histFirst")
  /\ lastCancel' = NoCancel
  /\ UNCHANGED <<helpers, syncIncomingTransactions, stream, incomingSyncPromise,
                 config, watch, tip, streams, tasks, nTasks>>

\* OnStartHeaderFails with the height written before the lookup is awaited.
OnStartHeaderFailsAfterHeightWrite ==
  /\ pc = "awaitHeader"
  /\ pc' = "headerFailed"
  /\ lastSyncedBlockHeight' = skipHeight
  /\ lastRequest' = NoRequest
  /\ lastCancel' = NoCancel
  /\ UNCHANGED <<helpers, syncIncomingTransactions, stream,
                 incomingSyncPromise, config, lastSyncedBlockHash, watch,
                 tip, streams, hist, tasks, nTasks>>

\* onStart, line 130: getBlockHeaderByHeight rejects; onStart rejects with it.
OnStartHeaderFails ==
  /\ pc = "awaitHeader"
  /\ pc' = "headerFailed"
  /\ lastRequest' = NoRequest
  /\ lastCancel' = NoCancel
  /\ UNCHANGED <<helpers, syncIncomingTransactions, stream, incomingSyncPromise,
                 config, checkpoint, watch, tip, streams, hist, tasks, nTasks>>

\* onStart, lines 133-136: the height is written, then the write of the hash
\* fails (or the process dies); onStart ends there.
OnStartHashWriteFails ==
  /\ pc = "awaitHeader"
  /\ skipHeight <= tip
  /\ lastSyncedBlockHeight' = SkipCheckpoint(skipHeight, HashOf(skipHeight)).height
  /\ pc' = "failed"
  /\ lastRequest' = NoRequest
  /\ lastCancel' = NoCancel
  /\ UNCHANGED <<helpers, syncIncomingTransactions, stream, incomingSyncPromise,
                 config, lastSyncedBlockHash, watch, tip, streams, hist,
                 tasks, nTasks>>

\* OnStartOutcome with the rejection caught and dropped.
OnStartSwallowsFailure(historicalSync) == "ready"

\* onStart, line 142: await this.startHistoricalSync(this.network), with no
\* try/catch around it: onStart resolves when it resolves and rejects when it
\* rejects.
OnStartOutcome(historicalSync) ==
  IF historicalSync = "rejected" THEN "failed" ELSE "ready"

\* Section 4.2: the historical stream delivers the batch of block pos + 1.
\* A batch that verifies is matched and the watch set extended.  When the set
\* grew, the range is re-scanned from the last checkpoint (not from this
\* batch) with the expanded set; otherwise the batch is applied: the
\* checkpoint advances to its block and is persisted.
HistBatch(m) ==
  /\ pc = "histSync"
  /\ hist.state = "active"
  /\ hist.pos < tip
  /\ ExtendWatchSet(watchSize, m, gapLimit) <= MaxWatch
  /\ watchSize' = ExtendWatchSet(watchSize, m, gapLimit)
  /\ maxMatched' = Max(maxMatched, m)
  /\ IF watchSize' > watchSize
       THEN /\ HistOpen(watchSize', lastSyncedBlockHeight,
                        lastSyncedBlockHash, "histRescan")
            /\ UNCHANGED checkpoint
       ELSE /\ lastSyncedBlockHeight' = hist.pos + 1
            /\ lastSyncedBlockHash' = HashOf(hist.pos + 1)
            /\ hist' = [hist EXCEPT !.pos = hist.pos + 1]
            /\ lastRequest' = NoRequest
            /\ UNCHANGED pc
  /\ lastCancel' = NoCancel
  /\ UNCHANGED <<helpers, syncIncomingTransactions, stream, incomingSyncPromise,
                 config, tip, streams, tasks, nTasks>>

\* Section 4.2: a batch fails to decode or to verify; the failure is fatal
\* to the sync attempt and onStart rejects with it.
HistBatchFails ==
  /\ pc = "histSync"
  /\ hist.state = "active"
  /\ hist.pos < tip
  /\ hist' = NoStreamRec
  /\ pc' = OnStartOutcome("rejected")
  /\ lastRequest' = NoRequest
  /\ lastCancel' = NoCancel
  /\ UNCHANGED <<helpers, syncIncomingTransactions, stream, incomingSyncPromise,
                 config, checkpoint, watch, tip, streams, tasks, nTasks>>

\* Section 4.2: the stream has reached the tip; startHistoricalSync resolves
\* and so does onStart (line 142).
HistComplete ==
  /\ pc = "histSync"
  /\ hist.state = "active"
  /\ hist.pos >= tip
  /\ hist' = NoStreamRec
  /\ pc' = OnStartOutcome("resolved")
  /\ lastRequest' = NoRequest
  /\ lastCancel' = NoCancel
  /\ UNCHANGED <<helpers, syncIncomingTransactions, stream, incomingSyncPromise,
                 config, checkpoint, watch, tip, streams, tasks, nTasks>>

\* Execute awaiting startIncomingSync: it does not return while the task
\* runs and keeps no promise.
ExecuteAwaitingSync ==
  /\ pc = "ready"
  /\ nTasks < MaxTasks
  /\ syncIncomingTransactions' = TRUE
  /\ tasks' = [tasks EXCEPT ![nTasks + 1] = "opening"]
  /\ nTasks' = nTasks + 1
  /\ pc' = "executing"
  /\ lastRequest' = NoRequest
  /\ lastCancel' = NoCancel
  /\ UNCHANGED <<helpers, stream, incomingSyncPromise, config, checkpoint,
                 watch, tip, streams, hist>>

\* execute, lines 151-158: sets the flag and starts startIncomingSync without
\* awaiting it; the promise is kept in incomingSyncPromise.
Execute ==
  /\ pc = "ready"
  /\ nTasks < MaxTasks
  /\ syncIncomingTransactions' = TRUE
  /\ tasks' = [tasks EXCEPT ![nTasks + 1] = "opening"]
  /\ nTasks' = nTasks + 1
  /\ incomingSyncPromise' = nTasks + 1
  /\ pc' = "running"
  /\ lastRequest' = NoRequest
  /\ lastCancel' = NoCancel
  /\ UNCHANGED <<helpers, stream, config, checkpoint, watch, tip, streams, hist>>

\* Section 4.3: the incoming-sync task opens its stream, first or rebuilt:
\* filtered by the watch set, starting at the persisted checkpoint; the
\* stream becomes the Stream Handle.
IncomingOpen(t) ==
  /\ tasks[t] \in {"opening", "reopening"}
  /\ lastRequest' = Subscribe(t, watchSize, lastSyncedBlockHeight,
                              lastSyncedBlockHash,
                              IF tasks[t] = "opening" THEN "first"
                              ELSE streams[t].intent,
                              pc)
  /\ streams' = [streams EXCEPT ![t] = Opened(lastRequest')]
  /\ stream' = t
  /\ tasks' = [tasks EXCEPT ![t] = "streaming"]
  /\ lastCancel' = NoCancel
  /\ UNCHANGED <<helpers, syncIncomingTransactions, incomingSyncPromise, config,
                 checkpoint, watch, tip, pc, hist, nTasks>>

\* Section 4.3: the live stream delivers the batch of block pos + 1: verify,
\* match, extend the watch set.  When the set grew the stream is cancelled
\* with the handle kept, to be rebuilt from the last persisted checkpoint
\* (not from this batch); otherwise the batch is applied: the checkpoint
\* advances to its block and is persisted.
IncomingBatch(t, m, sync) ==
  /\ tasks[t] = "streaming"
  /\ streams[t].state = "active"
  /\ streams[t].pos < tip
  /\ ExtendWatchSet(watchSize, m, gapLimit) <= MaxWatch
  /\ watchSize' = ExtendWatchSet(watchSize, m, gapLimit)
  /\ maxMatched' = Max(maxMatched, m)
  /\ IF watchSize' > watchSize
       THEN /\ Commit(TransportCancel(Heap, t, "gap", sync))
            /\ UNCHANGED checkpoint
       ELSE /\ sync = FALSE
            /\ lastSyncedBlockHeight' = streams[t].pos + 1
            /\ lastSyncedBlockHash' = HashOf(streams[t].pos + 1)
            /\ Commit([Heap EXCEPT !.streams[t].pos = streams[t].pos + 1])
  /\ lastRequest' = NoRequest
  /\ UNCHANGED <<helpers, syncIncomingTransactions, incomingSyncPromise, config, tip,
                 pc, hist, nTasks>>

\* IncomingBatchFails with the checkpoint written before the batch is
\* verified.
IncomingBatchFailsAfterWrite(t, sync) ==
  /\ tasks[t] = "streaming"
  /\ streams[t].state = "active"
  /\ streams[t].pos < tip
  /\ lastSyncedBlockHeight' = streams[t].pos + 1
  /\ lastSyncedBlockHash' = HashOf(streams[t].pos + 1)
  /\ Commit(TransportCancel(Heap, t, "verify", sync))
  /\ lastRequest' = NoRequest
  /\ UNCHANGED <<helpers, syncIncomingTransactions, incomingSyncPromise,
                 config, watch, tip, pc, hist, nTasks>>

\* Sections 4.5 and 7: a batch of the live stream fails to decode or to
\* verify; nothing is persisted and the stream is restarted from the
\* checkpoint (cancelled with the handle kept).
IncomingBatchFails(t, sync) ==
  /\ tasks[t] = "streaming"
  /\ streams[t].state = "active"
  /\ streams[t].pos < tip
  /\ Commit(TransportCancel(Heap, t, "verify", sync))
  /\ lastRequest' = NoRequest
  /\ UNCHANGED <<helpers, syncIncomingTransactions, incomingSyncPromise, config,
                 checkpoint, watch, tip, pc, hist, nTasks>>

\* Section 6: the transport delivers the terminal notification of a
\* cancelled stream.
CancelNotify(s) ==
  /\ streams[s].state = "cancelling"
  /\ Commit(StreamEnded(Heap, s))
  /\ lastRequest' = NoRequest
  /\ UNCHANGED <<helpers, syncIncomingTransactions, incomingSyncPromise, config,
                 checkpoint, watch, tip, pc, hist, nTasks>>

\* StopStream without line 172: the cancelled stream stays in this.stream.
StopStreamKeepingHandle(st, sync) ==
  IF st.stream # NoStream
    THEN TransportCancel(st, st.stream, "stop", sync)
    ELSE st

\* onStop, lines 163-173, on the heap: if (this.stream) { this.stream.cancel();
\* this.stream = null; }
StopStream(st, sync) ==
  IF st.stream # NoStream
    THEN [TransportCancel(st, st.stream, "stop", sync) EXCEPT !.stream = NoStream]
    ELSE st

\* onStop, lines 160-174.
OnStop(sync) ==
  /\ pc \in Stopped \cup {"ready", "running"}
  /\ sync \/ (stream # NoStream /\ streams[stream].state = "active")
  /\ syncIncomingTransactions' = FALSE
  /\ Commit(StopStream(Heap, sync))
  /\ pc' = IF stream # NoStream THEN "stoppedAfterCancel" ELSE "stoppedNoStream"
  /\ lastRequest' = NoRequest
  /\ UNCHANGED <<helpers, incomingSyncPromise, config, checkpoint, watch, tip, hist,
                 nTasks>>

Next ==
  \/ NewBlock
  \/ OnStartBegin
  \/ OnStartHeaderReturn
  \/ OnStartHeaderFails
  \/ OnStartHashWriteFails
  \/ \E m \in {NoMatch} \cup (0..(watchSize - 1)) : HistBatch(m)
  \/ HistBatchFails
  \/ HistComplete
  \/ Execute
  \/ \E t \in TaskIds : IncomingOpen(t)
  \/ \E t \in TaskIds, m \in {NoMatch} \cup (0..(watchSize - 1)),
        sync \in BOOLEAN : IncomingBatch(t, m, sync)
  \/ \E t \in TaskIds, sync \in BOOLEAN : IncomingBatchFails(t, sync)
  \/ \E s \in TaskIds : CancelNotify(s)
  \/ \E sync \in BOOLEAN : OnStop(sync)

\* The worker as constructed, none of the helpers exercised.
WorkerInit == Init /\ MatcherOff /\ CodecOff /\ StorageOff

Spec == WorkerInit /\ [][Next]_vars

\* The worker as constructed, left alone while a helper is exercised.
WorkerOff ==
  /\ Init
  /\ skipHeight = 0
  /\ lastSyncedBlockHeight = 0
  /\ gapLimit = 1

\* ------------------------------------------- filterWalletTransactions

MaxTxs == 2         \* the transactions argument has at most this many entries
MaxAddrs == 2       \* the addressList argument has at most this many entries

Networks == {"testnet", "livenet"}
Keys == {"k1", "k2"}

\* input.script of an input that carries no script (line 49).
NoScript == "absent"

\* script.toAddress(network): the address of the script's key on that network.
ToAddress(script, net) == [net |-> net, key |-> script]

\* address.toString(): the string the address list is searched for.
AddressToString(addr) == <<addr.net, addr.key>>

Addresses == {AddressToString(ToAddress(k, n)) : k \in Keys, n \in Networks}

SeqsUpTo(S, n) == UNION {[1..k -> S] : k \in 0..n}

\* A transaction object: its inputs and outputs are objects of their own,
\* told apart by the transaction they belong to and their position in it.
Tx(ins, outs) ==
  [id |-> <<ins, outs>>,
   inputs |-> [n \in DOMAIN ins |->
                 [tx |-> <<ins, outs>>, n |-> n, script |-> ins[n]]],
   outputs |-> [n \in DOMAIN outs |->
                  [tx |-> <<ins, outs>>, n |-> n, script |-> outs[n]]]]

InputShapes == {<< >>, <<NoScript>>, <<"k1">>, <<NoScript, "k2">>}
OutputShapes == {<< >>, <<"k1">>, <<"k2", "k1">>}
TxPool == {Tx(ins, outs) : ins \in InputShapes, outs \in OutputShapes}

\* addressList.includes(addr), lines 51 and 60.
Includes(list, addr) == \E i \in DOMAIN list : list[i] = addr

\* Lines 43-44: the two lists a call collects into.
LeftoverSpentOutputs ==
  IF filterCalls = << >> THEN << >>
  ELSE filterCalls[Len(filterCalls)].spentOutputs

NewSpentOutputs == << >>
NewUnspentOutputs == << >>

\* InputStep without the addressList.includes test: every input that has a
\* script is taken for the wallet's.
InputStepAnyScript(acc, input, list, net) ==
  IF input.script # NoScript
    THEN [acc EXCEPT !.spentOutputs = Append(@, input),
                     !.isWalletTransaction = TRUE]
    ELSE acc

\* Lines 48-56, the body of tx.inputs.forEach.
InputStep(acc, input, list, net) ==
  IF input.script # NoScript
    THEN IF Includes(list, AddressToString(ToAddress(input.script, net)))
           THEN [acc EXCEPT !.spentOutputs = Append(@, input),
                            !.isWalletTransaction = TRUE]
           ELSE acc
    ELSE acc

\* OutputStep assigning the flag instead of raising it: an output that does
\* not match takes a matched input's transaction out again.
OutputStepOverwritingFlag(acc, output, list, net) ==
  IF Includes(list, AddressToString(ToAddress(output.script, net)))
    THEN [acc EXCEPT !.unspentOutputs = Append(@, output),
                     !.isWalletTransaction = TRUE]
    ELSE [acc EXCEPT !.isWalletTransaction = FALSE]

\* Lines 58-64, the body of tx.outputs.forEach.
OutputStep(acc, output, list, net) ==
  IF Includes(list, AddressToString(ToAddress(output.script, net)))
    THEN [acc EXCEPT !.unspentOutputs = Append(@, output),
                     !.isWalletTransaction = TRUE]
    ELSE acc

RECURSIVE ForEachInput(_, _, _, _, _)
ForEachInput(acc, inputs, n, list, net) ==
  IF n > Len(inputs) THEN acc
  ELSE ForEachInput(InputStep(acc, inputs[n], list, net), inputs, n + 1,
                    list, net)

RECURSIVE ForEachOutput(_, _, _, _, _)
ForEachOutput(acc, outputs, n, list, net) ==
  IF n > Len(outputs) THEN acc
  ELSE ForEachOutput(OutputStep(acc, outputs[n], list, net), outputs, n + 1,
                     list, net)

\* Lines 45-67, the callback of transactions.filter for one transaction.
FilterCallback(acc, tx, list, net) ==
  LET start == [acc EXCEPT !.isWalletTransaction = FALSE]
      afterInputs == ForEachInput(start, tx.inputs, 1, list, net)
      afterOutputs == ForEachOutput(afterInputs, tx.outputs, 1, list, net)
  IN  IF afterOutputs.isWalletTransaction
        THEN [afterOutputs EXCEPT !.transactions = Append(@, tx)]
        ELSE afterOutputs

RECURSIVE FilterFrom(_, _, _, _, _)
FilterFrom(acc, txs, n, list, net) ==
  IF n > Len(txs) THEN acc
  ELSE FilterFrom(FilterCallback(acc, txs[n], list, net), txs, n + 1,
                  list, net)

\* Lines 42-74.
filterWalletTransactions(txs, list, net) ==
  LET acc == FilterFrom([transactions |-> << >>,
                         spentOutputs |-> NewSpentOutputs,
                         unspentOutputs |-> NewUnspentOutputs,
                         isWalletTransaction |-> FALSE],
                        txs, 1, list, net)
  IN  [transactions |-> acc.transactions,
       spentOutputs |-> acc.spentOutputs,
       unspentOutputs |-> acc.unspentOutputs]

FilterInit ==
  /\ WorkerOff
  /\ CodecOff
  /\ StorageOff
  /\ transactions \in SeqsUpTo(TxPool, MaxTxs)
  /\ addressList \in SeqsUpTo(Addresses, MaxAddrs)
  /\ network \in Networks
  /\ filterCalls = << >>

\* A caller calls filterWalletTransactions(transactions, addressList, network).
FilterCall ==
  /\ Len(filterCalls) < 2
  /\ filterCalls' = Append(filterCalls,
                           filterWalletTransactions(transactions, addressList,
                                                    network))
  /\ UNCHANGED <<worker, codec, storage, transactions, addressList, network>>

FilterNext == FilterCall

FilterSpec == FilterInit /\ [][FilterNext]_vars

\* ---------------------------------------------------- decoding helpers

MaxRaws == 2        \* a payload of the response lists at most this many raw items

\* getRawMerkleBlock() of a response without a merkle block: falsy bytes.
NoBytes == ""

\* getRawTransactions() and getInstantSendLockMessages() of a response
\* without that payload (undefined), and a payload with its list.
NoPayload == [present |-> FALSE, list |-> << >>]
Payload(list) == [present |-> TRUE, list |-> list]

\* Raw bytes as the stream delivers them; the codec cannot parse MalformedRaw.
MalformedRaw == "malformed"
Raws == {"raw1", "raw2", MalformedRaw}

\* What a helper call comes to: a returned value, or the exception it threw.
Returned(value) == [called |-> TRUE, threw |-> FALSE, value |-> value]
Thrown == [called |-> TRUE, threw |-> TRUE]

\* new Transaction(Buffer.from(raw)), new MerkleBlock(...), new InstantLock(...):
\* the decoded value, or the constructor's exception.
New(type, raw) ==
  IF raw = MalformedRaw THEN Thrown
  ELSE Returned([type |-> type, from |-> raw])

\* MapNew leaving out the items that do not decode.
RECURSIVE MapNewSkippingMalformed(_, _, _, _)
MapNewSkippingMalformed(type, raws, n, acc) ==
  IF n > Len(raws) THEN Returned(acc)
  ELSE LET item == New(type, raws[n]) IN
         MapNewSkippingMalformed(type, raws, n + 1,
                                 IF item.threw THEN acc
                                 ELSE Append(acc, item.value))

\* Lines 100-102 and 113-115: list.map((raw) => new Type(Buffer.from(raw))),
\* from item n on; the first constructor that throws ends the call.
RECURSIVE MapNew(_, _, _, _)
MapNew(type, raws, n, acc) ==
  IF n > Len(raws) THEN Returned(acc)
  ELSE LET item == New(type, raws[n]) IN
         IF item.threw THEN Thrown
         ELSE MapNew(type, raws, n + 1, Append(acc, item.value))

\* Lines 81-88.
getMerkleBlockFromStreamResponse(resp) ==
  IF resp.rawMerkleBlock # NoBytes
    THEN New("MerkleBlock", resp.rawMerkleBlock)
    ELSE Returned("null")

\* Lines 95-106.
getTransactionListFromStreamResponse(resp) ==
  IF resp.rawTransactions # NoPayload
    THEN MapNew("Transaction", resp.rawTransactions.list, 1, << >>)
    ELSE Returned(<< >>)

\* Lines 108-119.
getInstantSendLocksFromResponse(resp) ==
  IF resp.instantSendLockMessages # NoPayload
    THEN MapNew("InstantLock", resp.instantSendLockMessages.list, 1, << >>)
    ELSE Returned(<< >>)

Payloads == {NoPayload} \cup {Payload(list) : list \in SeqsUpTo(Raws, MaxRaws)}

DecodeInit ==
  /\ WorkerOff
  /\ MatcherOff
  /\ StorageOff
  /\ response \in [rawMerkleBlock : {NoBytes} \cup Raws,
                   rawTransactions : Payloads,
                   instantSendLockMessages : Payloads]
  /\ decoded = [merkleBlock |-> NotCalled, transactions |-> NotCalled,
                instantLocks |-> NotCalled]

DecodeMerkleBlock ==
  /\ ~decoded.merkleBlock.called
  /\ decoded' = [decoded EXCEPT
                   !.merkleBlock = getMerkleBlockFromStreamResponse(response)]
  /\ UNCHANGED <<worker, matcher, storage, response>>

DecodeTransactionList ==
  /\ ~decoded.transactions.called
  /\ decoded' = [decoded EXCEPT
                   !.transactions =
                     getTransactionListFromStreamResponse(response)]
  /\ UNCHANGED <<worker, matcher, storage, response>>

DecodeInstantSendLocks ==
  /\ ~decoded.instantLocks.called
  /\ decoded' = [decoded EXCEPT
                   !.instantLocks = getInstantSendLocksFromResponse(response)]
  /\ UNCHANGED <<worker, matcher, storage, response>>

DecodeNext ==
  \/ DecodeMerkleBlock
  \/ DecodeTransactionList
  \/ DecodeInstantSendLocks

DecodeSpec == DecodeInit /\ [][DecodeNext]_vars

\* ----------------------------------------------- the checkpoint store

\* storage.store.wallets[walletId].accounts[index] = {blockHeight, blockHash}
WalletIds == {"f03f3fa4b5", "a1b2c3d4e5"}
Indexes == {0, 1}

Account(h) == [blockHeight |-> h, blockHash |-> HashOf(h)]

\* GetLastSyncedBlockHash reading the wallet's first account whatever
\* this.index says.
GetBlockHashOfFirstAccount(store, w, i) == store[w][0].blockHash

\* getLastSyncedBlockHash.call(worker): the blockHash of the account selected
\* by walletId and index.
GetLastSyncedBlockHash(store, w, i) == store[w][i].blockHash

\* setLastSyncedBlockHeight(height) and setLastSyncedBlockHash(hash), on the
\* same account.
SetLastSyncedBlockHeight(store, w, i, height) ==
  [store EXCEPT ![w][i].blockHeight = height]

SetLastSyncedBlockHash(store, w, i, hash) ==
  [store EXCEPT ![w][i].blockHash = hash]

StoreInit ==
  /\ Init
  /\ lastSyncedBlockHeight = 0
  /\ gapLimit = 1
  /\ MatcherOff
  /\ CodecOff
  /\ accounts \in [WalletIds -> [Indexes -> {Account(h) : h \in 0..InitTip}]]
  /\ walletId \in WalletIds
  /\ index \in Indexes
  /\ readHash = NotCalled

\* A caller reads the checkpoint hash.
StoreRead ==
  /\ readHash' = [called |-> TRUE,
                  value |-> GetLastSyncedBlockHash(accounts, walletId, index)]
  /\ UNCHANGED <<worker, matcher, codec, accounts, walletId, index>>

\* onStart, lines 129-139, seen at the store: with a skip height configured
\* the header is looked up and height and hash are written to the account.
StoreOnStartSkip ==
  /\ skipHeight # 0
  /\ LET cp == SkipCheckpoint(skipHeight, HashOf(skipHeight)) IN
       accounts' = SetLastSyncedBlockHash(
                     SetLastSyncedBlockHeight(accounts, walletId, index,
                                              cp.height),
                     walletId, index, cp.hash)
  /\ readHash' = NotCalled
  /\ UNCHANGED <<worker, matcher, codec, walletId, index>>

StoreNext ==
  \/ StoreRead
  \/ StoreOnStartSkip

StoreSpec == StoreInit /\ [][StoreNext]_vars


\* ------------------------------------------------------------- claims

\* C1: after an onStop that found a transaction stream and cancelled it, no
\* new stream is opened while the worker stays stopped, whenever the
\* transport delivers the CANCELLED notification.
NoStreamOpenedAfterStopCancel ==
  lastRequest.openedWhen # "stoppedAfterCancel"

\* C2: onStop never issues cancel() for a shutdown while this.stream still
\* references the stream being torn down.
StopClearsHandleBeforeCancel ==
  lastCancel.intent = "stop" => lastCancel.handle # lastCancel.target

\* A step in which task t cancels its stream because the watch set grew.
GapCancelStep(t) ==
  lastCancel'.intent = "gap" /\ lastCancel'.target = t

\* A step in which task t opens the stream that replaces a gap-cancelled one.
GapRebuildStep(t) ==
  tasks[t] = "reopening" /\ streams[t].intent = "gap" /\ tasks'[t] # "reopening"

\* C3: when a batch of the live stream makes the watch set grow, the stream
\* is cancelled with the handle not cleared and the worker not marked
\* stopped, the checkpoint is not advanced to the triggering batch, and the
\* rebuild opens one stream, filtered by the expanded watch set and starting
\* at the persisted checkpoint.
GapGrowthRebuildsStream ==
  [][\A t \in TaskIds :
       /\ GapCancelStep(t) =>
            /\ lastCancel'.handle = stream
            /\ watchSize' > watchSize
            /\ syncIncomingTransactions' = syncIncomingTransactions
            /\ lastSyncedBlockHeight' = lastSyncedBlockHeight
            /\ lastSyncedBlockHash' = lastSyncedBlockHash
            /\ lastRequest' = NoRequest
            /\ stream # NoStream =>
                 \/ tasks'[t] = "reopening"
                 \/ streams'[t].state = "cancelling" /\ stream' = stream
       /\ GapRebuildStep(t) =>
            /\ tasks'[t] = "streaming"
            /\ streams'[t].state = "active"
            /\ stream' = t
            /\ lastRequest'.owner = t
            /\ lastRequest'.addrs = watchSize
            /\ lastRequest'.fromHeight = lastSyncedBlockHeight
            /\ lastRequest'.fromHash = lastSyncedBlockHash
            /\ streams'[t].pos = lastSyncedBlockHeight
            /\ \A u \in TaskIds \ {t} : streams'[u] = streams[u]
     ]_vars

\* C3's case: a rebuild after a gap-limit growth has opened its stream while
\* the worker runs.
GapRebuildDone ==
  /\ pc = "running"
  /\ lastRequest.cause = "gap"
  /\ lastRequest.addrs > gapLimit
  /\ \E t \in TaskIds : lastRequest.owner = t /\ streams[t].state = "active"

\* C4: the persisted checkpoint height never decreases, over onStart (with or
\* without a skip height), batches, reconnects, onStop and restarts.
CheckpointHeightNeverDecreases ==
  [][lastSyncedBlockHeight' >= lastSyncedBlockHeight]_vars

\* C5: in every reachable state, the states a failure inside onStart leaves
\* included, the persisted height and hash refer to the same block.
CheckpointHeightHashSameBlock ==
  lastSyncedBlockHash = HashOf(lastSyncedBlockHeight)

\* C6: with a skip height h configured, onStart opens no stream before the
\* checkpoint is (h, hash of the header at h): none of its own in any start,
\* and, as long as execute has never run, none at all; and the first request
\* of the historical sync starts from exactly that height and hash.
SkipCheckpointBeforeFirstStream ==
  /\ pc = "awaitHeader" =>
       /\ hist.state = "none"
       /\ lastRequest.openedWhen # "onStart"
       /\ nTasks = 0 => lastRequest = NoRequest
  /\ (skipHeight # 0 /\ lastRequest.cause = "histFirst") =>
       /\ lastRequest.fromHeight = skipHeight
       /\ lastRequest.fromHash = HashOf(skipHeight)
       /\ lastSyncedBlockHeight = skipHeight
       /\ lastSyncedBlockHash = HashOf(skipHeight)

\* C6's case: onStart has moved a checkpoint to the skip height and the
\* historical sync has made its first request.
SkipApplied ==
  /\ skipHeight # 0
  /\ pc = "histSync"
  /\ lastRequest.cause = "histFirst"
  /\ hist.state = "active"

\* C7: the historical sync and the incoming sync never consume a stream at
\* the same time, in every sequence of start, execute, stop and restart.
HistoricalAndIncomingNeverConcurrent ==
  ~(/\ pc = "histSync"
    /\ hist.state = "active"
    /\ \E t \in TaskIds : tasks[t] = "streaming" /\ streams[t].state = "active")

\* The number of streams open on the transport.
OpenStreams ==
  Cardinality({t \in TaskIds : streams[t].state = "active"})
    + (IF hist.state = "active" THEN 1 ELSE 0)

\* C8: at any time at most one transaction stream is open for the worker.
AtMostOneStreamOpen == OpenStreams <= 1

\* C9: after an onStop that found the Stream Handle null, no stream is open
\* while the worker stays stopped.
StopWithNullHandleTearsDown ==
  pc = "stoppedNoStream" => \A t \in TaskIds : streams[t].state # "active"

\* C10: the watch set has at least maxMatchedIndex + gapLimit addresses after
\* every batch, and its size never decreases.
WatchSetCoversGapAndNeverShrinks ==
  /\ [](watchSize >= maxMatched + gapLimit)
  /\ [][watchSize' >= watchSize]_vars

\* C10's case: a matched index made the watch set grow beyond the gap limit.
WatchSetGrew ==
  /\ maxMatched >= 0
  /\ watchSize > gapLimit
  /\ watchSize >= maxMatched + gapLimit

\* What the claims about filterWalletTransactions speak of: the addresses of
\* the list, an input or an output resolving to one of them, a transaction
\* having such an input or output.
AddressSet == {addressList[i] : i \in DOMAIN addressList}

ResolvesIntoList(script) ==
  /\ script # NoScript
  /\ AddressToString(ToAddress(script, network)) \in AddressSet

TxMatches(tx) ==
  \/ \E n \in DOMAIN tx.inputs : ResolvesIntoList(tx.inputs[n].script)
  \/ \E n \in DOMAIN tx.outputs : ResolvesIntoList(tx.outputs[n].script)

Elements(seq) == {seq[i] : i \in DOMAIN seq}

InputsOfT ==
  UNION {Elements(transactions[i].inputs) : i \in DOMAIN transactions}

OutputsOfT ==
  UNION {Elements(transactions[i].outputs) : i \in DOMAIN transactions}

Count(seq, x) == Cardinality({i \in DOMAIN seq : seq[i] = x})

\* How many times the transaction with this id occurs in T.
Occurrences(id) ==
  Cardinality({i \in DOMAIN transactions : transactions[i].id = id})

\* C12: the transactions a call returns are exactly the sub-list of T, in
\* T's order, of the transactions with an input or an output whose script
\* resolves to an address of the list; an input without a script does not
\* count.
FilteredIsMatchingSubList ==
  \A c \in DOMAIN filterCalls :
    filterCalls[c].transactions = SelectSeq(transactions, TxMatches)

\* C12's case: a call kept some transactions and dropped one whose input
\* carries no script.
FilterKeptSomeDroppedScriptless ==
  /\ filterCalls # << >>
  /\ filterCalls[1].transactions # << >>
  /\ \E i \in DOMAIN transactions :
       /\ ~TxMatches(transactions[i])
       /\ \E n \in DOMAIN transactions[i].inputs :
            transactions[i].inputs[n].script = NoScript

\* C13 as stated: spentOutputs hold exactly the inputs of T that resolve into
\* the list, unspentOutputs exactly such outputs, and neither holds the same
\* element twice.
SpentUnspentExactNoDuplicates ==
  \A c \in DOMAIN filterCalls :
    LET r == filterCalls[c] IN
      /\ Elements(r.spentOutputs) =
           {x \in InputsOfT : ResolvesIntoList(x.script)}
      /\ Elements(r.unspentOutputs) =
           {x \in OutputsOfT : ResolvesIntoList(x.script)}
      /\ \A x \in InputsOfT : Count(r.spentOutputs, x) <= 1
      /\ \A x \in OutputsOfT : Count(r.unspentOutputs, x) <= 1

\* C13 amended: spentOutputs hold the inputs of T that resolve into the list
\* and nothing else, unspentOutputs such outputs and nothing else, each as
\* many times as its transaction occurs in T: no element twice when no
\* transaction occurs twice in T.
SpentUnspentExactPerOccurrence ==
  \A c \in DOMAIN filterCalls :
    LET r == filterCalls[c] IN
      /\ Elements(r.spentOutputs) \subseteq InputsOfT
      /\ Elements(r.unspentOutputs) \subseteq OutputsOfT
      /\ \A x \in InputsOfT :
           Count(r.spentOutputs, x) =
             IF ResolvesIntoList(x.script) THEN Occurrences(x.tx) ELSE 0
      /\ \A x \in OutputsOfT :
           Count(r.unspentOutputs, x) =
             IF ResolvesIntoList(x.script) THEN Occurrences(x.tx) ELSE 0

\* C13's case: a call over two different transactions returned a matched
\* input and a matched output, and left an input with a script out.
FilterSplitInputsAndOutputs ==
  /\ filterCalls # << >>
  /\ Len(transactions) = 2
  /\ transactions[1] # transactions[2]
  /\ filterCalls[1].spentOutputs # << >>
  /\ filterCalls[1].unspentOutputs # << >>
  /\ \E x \in InputsOfT : x.script # NoScript /\ ~ResolvesIntoList(x.script)

ListDecodedWhole(result, payload, type) ==
  IF payload = NoPayload THEN result = Returned(<< >>)
  ELSE IF \E i \in DOMAIN payload.list : payload.list[i] = MalformedRaw
    THEN result = Thrown
    ELSE /\ ~result.threw
         /\ Len(result.value) = Len(payload.list)
         /\ \A i \in DOMAIN payload.list :
              result.value[i] = [type |-> type, from |-> payload.list[i]]

GetterReturnsStoredHash ==
  /\ [](readHash.called =>
          readHash.value = accounts[walletId][index].blockHash)
  /\ [][(readHash'.called /\ ~readHash.called) => accounts' = accounts]_vars
  /\ [][accounts' # accounts =>
          /\ skipHeight # 0
          /\ GetLastSyncedBlockHash(accounts', walletId, index)
               = HashOf(skipHeight)
          /\ \A w \in WalletIds, i \in Indexes :
               <<w, i>> # <<walletId, index>> =>
                 accounts'[w][i] = accounts[w][i]]_vars

\* C16's case: the hash was read for the second account of a wallet whose
\* accounts hold different hashes, after onStart moved it to the skip height.
ReadAfterSkip ==
  /\ readHash.called
  /\ index = 1
  /\ skipHeight # 0
  /\ readHash.value = HashOf(skipHeight)
  /\ accounts[walletId][0].blockHash # readHash.value

\* A step in which a batch is rejected: the live stream's task cancels for a
\* restart, or the historical stream ends short of the tip.
BatchRejectedStep ==
  \/ lastCancel'.intent = "verify"
  \/ pc = "histSync" /\ hist.state = "active" /\ hist'.state = "none"
       /\ hist.pos < tip

\* A step in which the stream st (now) and st2 (next) applies one batch: it
\* stays open and moves on by one block, and the checkpoint is that block.
BatchAppliedStep(st, st2) ==
  /\ st.state = "active"
  /\ st2.state = "active"
  /\ st2.pos = st.pos + 1
  /\ lastSyncedBlockHeight' = st2.pos
  /\ lastSyncedBlockHash' = HashOf(st2.pos)

\* C11: a batch that fails verification leaves the checkpoint as it was, and
\* the checkpoint is written for a batch only in the step that verified and
\* matched it, before the stream moves on to the next batch (onStart's skip
\* write aside).
RejectedBatchNeverAdvancesCheckpoint ==
  /\ [][BatchRejectedStep =>
          /\ lastSyncedBlockHeight' = lastSyncedBlockHeight
          /\ lastSyncedBlockHash' = lastSyncedBlockHash]_vars
  /\ [][checkpoint' # checkpoint =>
          \/ pc = "awaitHeader" /\ pc' # pc
          \/ BatchAppliedStep(hist, hist')
          \/ \E t \in TaskIds : BatchAppliedStep(streams[t], streams'[t])]_vars

\* C11's case: the live stream has just rejected the batch of the block
\* after the checkpoint, and the checkpoint stands below the tip.
LiveBatchRejected ==
  /\ pc = "running"
  /\ lastCancel.intent = "verify"
  /\ lastCancel.target # NoStream
  /\ lastSyncedBlockHeight < tip

\* A step in which startHistoricalSync fails: its stream ends short of the tip.
HistoricalSyncFailsStep ==
  /\ pc = "histSync"
  /\ hist.state = "active"
  /\ hist'.state = "none"
  /\ hist.pos < tip

\* C14: when startHistoricalSync fails onStart rejects, and the incoming sync
\* is not started: the flag is and stays false, no task is created and
\* incomingSyncPromise is left alone, in the failing step and as long as the
\* worker rests in the failure.
HistoricalFailurePropagates ==
  /\ [][HistoricalSyncFailsStep =>
          /\ pc' = "failed"
          /\ ~syncIncomingTransactions
          /\ ~syncIncomingTransactions'
          /\ nTasks' = nTasks
          /\ incomingSyncPromise' = incomingSyncPromise]_vars
  /\ [][pc = "failed" =>
          /\ nTasks' = nTasks
          /\ incomingSyncPromise' = incomingSyncPromise
          /\ ~syncIncomingTransactions']_vars

\* C14's case: onStart rejected because the historical sync failed before the
\* tip (no skip height, so nothing else of onStart can fail).
HistoricalSyncFailed ==
  /\ pc = "failed"
  /\ skipHeight = 0
  /\ lastSyncedBlockHeight < tip
  /\ hist.state = "none"

\* C15: the step that creates the incoming-sync task is execute's whole run:
\* it sets the flag, keeps the new task in incomingSyncPromise and returns
\* ("running") with the task started but not finished, no stream opened yet.
ExecuteDoesNotWait ==
  [][nTasks' # nTasks =>
       /\ pc = "ready"
       /\ pc' = "running"
       /\ syncIncomingTransactions'
       /\ nTasks' = nTasks + 1
       /\ incomingSyncPromise' = nTasks'
       /\ tasks'[nTasks'] = "opening"
       /\ streams' = streams
       /\ stream' = stream
       /\ lastRequest' = NoRequest]_vars

\* C15's case: execute has returned and its task is still consuming a stream.
ExecuteReturnedTaskRuns ==
  /\ pc = "running"
  /\ syncIncomingTransactions
  /\ incomingSyncPromise # NoTask
  /\ tasks[incomingSyncPromise] = "streaming"

\* C19: with a skip height, a failed header lookup makes onStart reject with
\* the checkpoint's height and hash untouched and startHistoricalSync not
\* called; without one, onStart looks no header up and starts the historical
\* sync from the checkpoint as stored.
HeaderFailureLeavesCheckpoint ==
  /\ [](skipHeight = 0 => pc \notin {"awaitHeader", "headerFailed"})
  /\ [](pc = "headerFailed" => hist.state = "none")
  /\ [][(pc' = "headerFailed" /\ pc # "headerFailed") =>
          /\ pc = "awaitHeader"
          /\ skipHeight # 0
          /\ lastSyncedBlockHeight' = lastSyncedBlockHeight
          /\ lastSyncedBlockHash' = lastSyncedBlockHash
          /\ hist' = hist
          /\ lastRequest' = NoRequest]_vars
  /\ [][(skipHeight = 0 /\ pc \in Stopped /\ pc' = "histSync") =>
          /\ lastSyncedBlockHeight' = lastSyncedBlockHeight
          /\ lastSyncedBlockHash' = lastSyncedBlockHash
          /\ lastRequest'.fromHeight = lastSyncedBlockHeight
          /\ lastRequest'.fromHash = lastSyncedBlockHash]_vars

\* C19's case: the header lookup failed while the stored checkpoint was not
\* at the skip height.
HeaderLookupFailed ==
  /\ pc = "headerFailed"
  /\ lastSyncedBlockHeight # skipHeight
  /\ lastSyncedBlockHash = HashOf(lastSyncedBlockHeight)

\* A step that is a run of onStop: the worker becomes stopped by it, or a
\* cancel() for a shutdown is issued.
OnStopStep ==
  \/ pc' # pc /\ pc' \in {"stoppedAfterCancel", "stoppedNoStream"}
  \/ lastCancel'.intent = "stop"

\* C20: onStop leaves syncIncomingTransactions false and this.stream null; it
\* calls cancel() on the stream the handle referenced when there was one and
\* makes no call otherwise, leaving streams and tasks as they were: so an
\* onStop right after another cancels and changes nothing.
OnStopClearsAndCancelsOnce ==
  [][OnStopStep =>
       /\ ~syncIncomingTransactions'
       /\ stream' = NoStream
       /\ stream # NoStream =>
            lastCancel' = [intent |-> "stop", handle |-> stream,
                           target |-> stream]
       /\ stream = NoStream =>
            /\ lastCancel' = NoCancel
            /\ streams' = streams
            /\ tasks' = tasks
       /\ incomingSyncPromise' = incomingSyncPromise
       /\ lastSyncedBlockHeight' = lastSyncedBlockHeight
       /\ lastSyncedBlockHash' = lastSyncedBlockHash]_vars

\* C20's case: onStop has just cancelled the stream of a running worker.
StoppedWithCancel ==
  /\ pc = "stoppedAfterCancel"
  /\ lastCancel.intent = "stop"
  /\ stream = NoStream
  /\ ~syncIncomingTransactions
====
